---------------------------- MODULE Spec2Model ----------------------------
(***************************************************************************)
(* Model of the Debian builder of driverkit                                *)
(* (pkg/driverbuilder/builder/debian.go): one call of debian.Script, from  *)
(* template parsing through kernel package URL resolution (kbuild index,   *)
(* then the three headers mirrors), the reachability filter, the           *)
(* three-URL gate and template execution.                                  *)
(*                                                                         *)
(* Strings are modelled as sequences of tokens, file names of an index     *)
(* page as records of the fields the regular expressions look at, an index *)
(* body as the set of listing positions (ord) of the file names it lists   *)
(* (a directory listing is sorted, so "leftmost match" is the matching     *)
(* file of least ord), and a URL as the pair of a base URL and the ord of  *)
(* a file name.  Every HTTP response is an      *)
(* input of the step that performs the request.  The variables resp and    *)
(* hres are locals of fetchDebianKernelURLs and its callees: they are      *)
(* dropped when Script goes on after that call returned its URLs.          *)
(***************************************************************************)
EXTENDS Integers, Sequences, FiniteSets, TLC

VARIABLES
    c,              \* Config argument of Script
    kr,             \* kernelrelease.KernelRelease argument of Script
    debianTemplate, \* the file embedded as the template text
    pc,             \* position inside Script
    fetched,        \* base URLs requested with http.Get, in request order
    resp,           \* response to the http.Get of the call in progress
    kbuildURL,      \* result of debianKbuildURLFromRelease
    hres,           \* what fetchDebianHeadersURLFromRelease returned, per mirror
    i,              \* loop position in debianHeadersURLFromRelease
    kurls,          \* result of fetchDebianKernelURLs
    reach,          \* the URLs of the list that answer the existence check
    urls,           \* urls in Script
    script,         \* first return value of Script
    err             \* second return value of Script

vars == <<c, kr, debianTemplate, pc, fetched, resp, kbuildURL, hres, i,
          kurls, reach, urls, script, err>>

---------------------------------------------------------------------------
(* Bounds *)

\* longest caller-supplied c.KernelUrls list
MaxOverride == 4

---------------------------------------------------------------------------
(* Errors: the messages of the fmt.Errorf calls, and the library errors *)

NoErr == "nil"
ErrKbuildNotFound == "kbuild not found"
ErrHeadersNotFound == "kernel headers not found"
ErrCommonNotFound == "kernel headers common not found"
ErrInsufficient == "specific kernel headers not found"
ErrGet == "http.Get: transport error"
ErrRead == "ioutil.ReadAll: read error"
ErrParse == "template: parse error"
ErrExec == "template: can't evaluate field"
ErrNoneResolving == "kernel not found"

TransportErrors == {ErrGet, ErrRead}

---------------------------------------------------------------------------
(* Kernel releases *)

Arch == "amd64"

Versions == {3, 4, 5}

KernelReleases ==
    { [Version |-> v, PatchLevel |-> 10, Sublevel |-> 0,
       FullExtraversion |-> x, Architecture |-> Arch] :
         v \in Versions,
         x \in { <<"-8", "-amd64">>, <<"-8", "-cloud", "-amd64">> } }

\* strings.TrimSuffix on token sequences
TrimSuffix(s, suffix) ==
    IF Len(s) >= 1 /\ s[Len(s)] = suffix THEN SubSeq(s, 1, Len(s) - 1) ELSE s

\* strings.Contains on token sequences
Contains(s, tok) == \E k \in 1..Len(s) : s[k] = tok

IsCloud(r) == Contains(r.FullExtraversion, "-cloud")

extraVersionPartial(r) ==
    LET p == TrimSuffix(r.FullExtraversion, "-" \o r.Architecture)
    IN  IF IsCloud(r) THEN TrimSuffix(p, "-cloud") ELSE p

matchExtraGroup(r) ==
    IF IsCloud(r) THEN <<"cloud", r.Architecture>> ELSE <<r.Architecture>>

matchExtraGroupCommon == <<"common">>

---------------------------------------------------------------------------
(* Index pages *)

NumericTokens == {"-1", "-3", "-8"}

File(o, p, v, x, g, pv, px, s) ==
    [ord |-> o, pkg |-> p, ver |-> v, extra |-> x, group |-> g,
     pver |-> pv, pextra |-> px, suffix |-> s]

\* The linux-headers entries an index page may list for release r, in
\* listing order:
\*  1 linux-headers-V.10.0-8-amd64_V.10.46-1_amd64.deb
\*  2 linux-headers-V.10.0-8-amd64_V.10.84-1_amd64.deb
\*  3 linux-headers-V.10.0-8-cloud-amd64_V.10.46-1_amd64.deb
\*  4 linux-headers-V.10.0-8-common_V.10.46-1_all.deb
\*  5 linux-headers-V.9.0-3-amd64_V.10.0-8_amd64.deb
\*  6 linux-headers-V.9.0-3-common_V.10.0-8_all.deb
HeaderFiles(V) ==
       { File(1, "linux-headers", <<V, 10, 0>>, <<"-8">>, <<"amd64">>,
              <<V, 10, 46>>, <<"-1">>, "amd64"),
         File(2, "linux-headers", <<V, 10, 0>>, <<"-8">>, <<"amd64">>,
              <<V, 10, 84>>, <<"-1">>, "amd64"),
         File(3, "linux-headers", <<V, 10, 0>>, <<"-8">>, <<"cloud", "amd64">>,
              <<V, 10, 46>>, <<"-1">>, "amd64"),
         File(4, "linux-headers", <<V, 10, 0>>, <<"-8">>, <<"common">>,
              <<V, 10, 46>>, <<"-1">>, "all"),
         File(5, "linux-headers", <<V, 9, 0>>, <<"-3">>, <<"amd64">>,
              <<V, 10, 0>>, <<"-8">>, "amd64"),
         File(6, "linux-headers", <<V, 9, 0>>, <<"-3">>, <<"common">>,
              <<V, 10, 0>>, <<"-8">>, "all") }

\* The linux-kbuild entries an index page may list for release r:
\*  7 linux-kbuild-V.10_V.10.46-1_amd64.deb
\*  8 linux-kbuild-V.10_V.10.46-1_arm64.deb
KbuildFiles(V) ==
       { File(7, "linux-kbuild", <<V, 10>>, <<>>, <<>>,
              <<V, 10, 46>>, <<"-1">>, "amd64"),
         File(8, "linux-kbuild", <<V, 10>>, <<>>, <<>>,
              <<V, 10, 46>>, <<"-1">>, "arm64") }

NoFile == 0

NoResp == [status |-> "none", body |-> {}]

\* What http.Get followed by ioutil.ReadAll can give: a transport failure,
\* a failure while reading the body, or a body.  The status code is never
\* looked at, so an error page is a body that lists nothing.
Responses(ords) ==
    { [status |-> "get-error", body |-> {}],
      [status |-> "read-error", body |-> {}] }
    \cup { [status |-> "ok", body |-> b] : b \in SUBSET ords }

Ords(files) == { f.ord : f \in files }

HeaderOrds == Ords(HeaderFiles(5))

KbuildOrds == Ords(KbuildFiles(5))

Listing ==
    [V \in Versions |->
       [o \in HeaderOrds \cup KbuildOrds |->
          CHOOSE f \in HeaderFiles(V) \cup KbuildFiles(V) : f.ord = o]]

\* the file name at listing position o
Name(r, o) == Listing[r.Version][o]

HeaderResponses == Responses(HeaderOrds)

KbuildResponses == Responses(KbuildOrds)

\* pattern.FindStringSubmatch, given the entries of the body that match the
\* pattern: the leftmost of them, or none
FindStringSubmatch(ms) ==
    IF ms = {} THEN NoFile
    ELSE CHOOSE o \in ms : \A o2 \in ms : o <= o2

URL(base, file) == [base |-> base, file |-> file]

NoURL == URL("", NoFile)


---------------------------------------------------------------------------
(* debianKbuildURLFromRelease *)

KbuildBaseDefault == "http://mirrors.kernel.org/debian/pool/main/l/linux/"
KbuildBaseLegacy == "http://mirrors.kernel.org/debian/pool/main/l/linux-tools/"

\* href="(linux-kbuild-%d\.%d.*%s\.deb)"
kbuildPattern(f, r) ==
    /\ f.pkg = "linux-kbuild"
    /\ f.ver = <<r.Version, r.PatchLevel>>
    /\ f.suffix = r.Architecture

KbuildBaseURLAlwaysDefault(r) == KbuildBaseDefault

KbuildBaseURL(r) ==
    IF r.Version = 3 THEN KbuildBaseLegacy ELSE KbuildBaseDefault

debianKbuildURLFromRelease(r, rsp) ==
    IF rsp.status = "get-error" THEN [url |-> NoURL, err |-> ErrGet]
    ELSE IF rsp.status = "read-error" THEN [url |-> NoURL, err |-> ErrRead]
    ELSE LET match == FindStringSubmatch({ o \in rsp.body :
                                                kbuildPattern(Name(r, o), r) })
         IN  IF match = NoFile
             THEN [url |-> NoURL, err |-> ErrKbuildNotFound]
             ELSE [url |-> URL(KbuildBaseURL(r), match), err |-> NoErr]

---------------------------------------------------------------------------
(* fetchDebianHeadersURLFromRelease *)

\* href="(linux-headers-%d\.%d\.%d%s-(%s)_.*(%s|all)\.deb)"
rmatch(f, r, group) ==
    /\ f.pkg = "linux-headers"
    /\ f.ver = <<r.Version, r.PatchLevel, r.Sublevel>>
    /\ f.extra = extraVersionPartial(r)
    /\ f.group = group
    /\ f.suffix \in {r.Architecture, "all"}

\* href="(linux-headers-[0-9]+\.[0-9]+\.[0-9]+-[0-9]+-(%s)_%d\.%d\.%d%s_(%s|all)\.deb)"
rmatchNew(f, r, group) ==
    /\ f.pkg = "linux-headers"
    /\ Len(f.ver) = 3
    /\ Len(f.extra) = 1 /\ f.extra[1] \in NumericTokens
    /\ f.group = group
    /\ f.pver = <<r.Version, r.PatchLevel, r.Sublevel>>
    /\ f.pextra = extraVersionPartial(r)
    /\ f.suffix \in {r.Architecture, "all"}

MatchesOfOld(body, r, group) == { o \in body : rmatch(Name(r, o), r, group) }

MatchesOfNew(body, r, group) ==
    { o \in body : rmatchNew(Name(r, o), r, group) }

LookForNewFirst(body, r, group) ==
    LET matches == FindStringSubmatch(MatchesOfNew(body, r, group))
    IN  IF matches = NoFile
        THEN FindStringSubmatch(MatchesOfOld(body, r, group))
        ELSE matches

\* the older pattern, and the newer one when the older matches nothing
LookFor(body, r, group) ==
    LET matches == FindStringSubmatch(MatchesOfOld(body, r, group))
    IN  IF matches = NoFile
        THEN FindStringSubmatch(MatchesOfNew(body, r, group))
        ELSE matches

FetchHeadersCommonOptional(baseURL, r, rsp) ==
    IF rsp.status = "get-error" THEN [urls |-> <<>>, err |-> ErrGet]
    ELSE IF rsp.status = "read-error" THEN [urls |-> <<>>, err |-> ErrRead]
    ELSE LET matches == LookFor(rsp.body, r, matchExtraGroup(r))
             matchesCommon == LookFor(rsp.body, r, matchExtraGroupCommon)
         IN  IF matches = NoFile
             THEN [urls |-> <<>>, err |-> ErrHeadersNotFound]
             ELSE IF matchesCommon = NoFile
             THEN [urls |-> <<URL(baseURL, matches)>>, err |-> NoErr]
             ELSE [urls |-> <<URL(baseURL, matches),
                              URL(baseURL, matchesCommon)>>,
                   err |-> NoErr]

fetchDebianHeadersURLFromRelease(baseURL, r, rsp) ==
    IF rsp.status = "get-error" THEN [urls |-> <<>>, err |-> ErrGet]
    ELSE IF rsp.status = "read-error" THEN [urls |-> <<>>, err |-> ErrRead]
    ELSE LET matches == LookFor(rsp.body, r, matchExtraGroup(r))
             matchesCommon == LookFor(rsp.body, r, matchExtraGroupCommon)
         IN  IF matches = NoFile
             THEN [urls |-> <<>>, err |-> ErrHeadersNotFound]
             ELSE IF matchesCommon = NoFile
             THEN [urls |-> <<>>, err |-> ErrCommonNotFound]
             ELSE [urls |-> <<URL(baseURL, matches),
                              URL(baseURL, matchesCommon)>>,
                   err |-> NoErr]

NoResult == [urls |-> <<>>, err |-> "not called"]

---------------------------------------------------------------------------
(* debianHeadersURLFromRelease *)

baseURLS ==
    << "http://security-cdn.debian.org/pool/main/l/linux/",
       "http://security-cdn.debian.org/pool/updates/main/l/linux/",
       "https://mirrors.edge.kernel.org/debian/pool/main/l/linux/" >>

Mirrors == 1..Len(baseURLS)

HeadersLoopLastWins(res, k) ==
    IF k < Len(baseURLS)
    THEN [ret |-> FALSE, urls |-> <<>>, err |-> NoErr]
    ELSE IF res.err = NoErr
    THEN [ret |-> TRUE, urls |-> res.urls, err |-> NoErr]
    ELSE [ret |-> TRUE, urls |-> <<>>, err |-> ErrHeadersNotFound]

HeadersLoopSurfaceError(res, k) ==
    [ret |-> TRUE, urls |-> res.urls, err |-> res.err]

\* One iteration of the loop over baseURLS, given what the call for mirror k
\* returned: return its URLs, go on to the next mirror, or give up.
HeadersLoop(res, k) ==
    IF res.err = NoErr
    THEN [ret |-> TRUE, urls |-> res.urls, err |-> NoErr]
    ELSE IF k < Len(baseURLS)
    THEN [ret |-> FALSE, urls |-> <<>>, err |-> NoErr]
    ELSE [ret |-> TRUE, urls |-> <<>>, err |-> ErrHeadersNotFound]

---------------------------------------------------------------------------
(* fetchDebianKernelURLs *)

KbuildFirst(hurls, kbuild) == <<kbuild>> \o hurls

AppendKbuild(hurls, kbuild) == Append(hurls, kbuild)

---------------------------------------------------------------------------
(* getResolvingURLs: the URLs of the list that answer an HTTP existence    *)
(* check, in list order; an error when none does.                          *)

getResolvingURLs(us, reachable) ==
    LET results == SelectSeq(us, LAMBDA u : u \in reachable)
    IN  IF Len(results) = 0
        THEN [urls |-> <<>>, err |-> ErrNoneResolving]
        ELSE [urls |-> results, err |-> NoErr]

Range(s) == { s[k] : k \in 1..Len(s) }

---------------------------------------------------------------------------
(* Templates and template execution *)

Node(kind, name, cond, fields, closed) ==
    [kind |-> kind, name |-> name, cond |-> cond, fields |-> fields,
     closed |-> closed]

\* the template of src/unnamed/part_000
YumTemplate ==
    << Node("text", "preamble", "",
            {"DriverBuildDir", "ModuleDownloadURL", "KernelPackage"}, TRUE),
       Node("if", "module-build", "BuildModule",
            {"DriverBuildDir", "ModuleDriverName", "ModuleFullPath"}, TRUE),
       Node("if", "probe-build", "BuildProbe", {"DriverBuildDir"}, TRUE) >>

\* templates/opensuse.sh
OpensuseTemplate ==
    << Node("text", "preamble", "",
            {"DriverBuildDir", "ModuleDownloadURL"}, TRUE),
       Node("range", "fetch", "KernelDownloadURLs", {}, TRUE),
       Node("text", "stage", "", {"DriverBuildDir", "ModuleDriverName"}, TRUE),
       Node("if", "module-build", "BuildModule",
            {"GCCVersion", "ModuleFullPath"}, TRUE),
       Node("if", "probe-build", "BuildProbe", {}, TRUE) >>

\* templates/debian.sh: preamble, one fetch per kernel URL, staging of the
\* headers, then the two optional build sections
DebianShTemplate ==
    << Node("text", "preamble", "",
            {"DriverBuildDir", "ModuleDownloadURL"}, TRUE),
       Node("range", "fetch", "KernelDownloadURLS", {}, TRUE),
       Node("text", "stage", "", {"KernelLocalVersion"}, TRUE),
       Node("if", "module-build", "BuildModule",
            {"DriverBuildDir", "ModuleDriverName", "ModuleFullPath"}, TRUE),
       Node("if", "probe-build", "BuildProbe",
            {"DriverBuildDir", "LLVMVersion"}, TRUE) >>

\* a template whose last {{ if }} is never closed
UnclosedTemplate ==
    << Node("text", "preamble", "",
            {"DriverBuildDir", "ModuleDownloadURL"}, TRUE),
       Node("if", "module-build", "BuildModule", {"DriverBuildDir"}, FALSE) >>

\* the files the template can have been embedded from
Templates == {"part_000", "opensuse.sh", "debian.sh", "unclosed.sh"}

TemplateText ==
    [t \in Templates |->
       CASE t = "part_000" -> YumTemplate
         [] t = "opensuse.sh" -> OpensuseTemplate
         [] t = "debian.sh" -> DebianShTemplate
         [] t = "unclosed.sh" -> UnclosedTemplate]

\* t.Parse: fails on a template whose actions are not balanced
ParseOk(t) == \A k \in 1..Len(TemplateText[t]) : TemplateText[t][k].closed

DebianTemplateDataFields ==
    {"DriverBuildDir", "ModuleDownloadURL", "KernelDownloadURLS",
     "KernelLocalVersion", "ModuleDriverName", "ModuleFullPath",
     "BuildModule", "BuildProbe", "LLVMVersion"}

debianLLVMVersionFromKernelRelease(r) == IF r.Version = 5 THEN "12" ELSE "7"

TogglesSwapped(cfg, r, us) ==
    [DriverBuildDir |-> "/tmp/driver",
     ModuleDownloadURL |-> "base/version.tar.gz",
     KernelDownloadURLS |-> us,
     KernelLocalVersion |-> r.FullExtraversion,
     ModuleDriverName |-> "falco",
     ModuleFullPath |-> "/tmp/driver/module.ko",
     BuildModule |-> (cfg.ProbeFilePath # ""),
     BuildProbe |-> (cfg.ModuleFilePath # ""),
     LLVMVersion |-> debianLLVMVersionFromKernelRelease(r)]

\* td := debianTemplateData{...}
debianTemplateData(cfg, r, us) ==
    [DriverBuildDir |-> "/tmp/driver",
     ModuleDownloadURL |-> "base/version.tar.gz",
     KernelDownloadURLS |-> us,
     KernelLocalVersion |-> r.FullExtraversion,
     ModuleDriverName |-> "falco",
     ModuleFullPath |-> "/tmp/driver/module.ko",
     BuildModule |-> (cfg.ModuleFilePath # ""),
     BuildProbe |-> (cfg.ProbeFilePath # ""),
     LLVMVersion |-> debianLLVMVersionFromKernelRelease(r)]

Line(section, arg) == [section |-> section, arg |-> arg]

\* what one node writes to the buffer, or the error that stops execution
ExecNode(n, td) ==
    IF n.kind = "text"
    THEN IF n.fields \subseteq DOMAIN td
         THEN [out |-> <<Line(n.name, NoURL)>>, err |-> NoErr]
         ELSE [out |-> <<>>, err |-> ErrExec]
    ELSE IF n.cond \notin DOMAIN td
    THEN [out |-> <<>>, err |-> ErrExec]
    ELSE IF n.kind = "range"
    THEN [out |-> [k \in 1..Len(td[n.cond]) |-> Line(n.name, td[n.cond][k])],
          err |-> NoErr]
    ELSE IF ~td[n.cond]
    THEN [out |-> <<>>, err |-> NoErr]
    ELSE IF n.fields \subseteq DOMAIN td
    THEN [out |-> <<Line(n.name, NoURL)>>, err |-> NoErr]
    ELSE [out |-> <<>>, err |-> ErrExec]

RECURSIVE ExecFrom(_, _, _, _)
ExecFrom(tpl, td, k, buf) ==
    IF k > Len(tpl) THEN [out |-> buf, err |-> NoErr]
    ELSE LET e == ExecNode(tpl[k], td)
         IN  IF e.err # NoErr THEN [out |-> buf, err |-> e.err]
             ELSE ExecFrom(tpl, td, k + 1, buf \o e.out)

\* parsed.Execute(buf, td): buf keeps what was written before an error
Execute(t, td) == ExecFrom(TemplateText[t], td, 1, <<>>)

ReturnBufferOnError(exec) == [script |-> exec.out, err |-> exec.err]

\* the last lines of Script: "" and the error, or the buffer and nil
ScriptReturn(exec) ==
    IF exec.err # NoErr
    THEN [script |-> <<>>, err |-> exec.err]
    ELSE [script |-> exec.out, err |-> NoErr]

GateAtTwo(us) == Len(us) < 2

\* if len(urls) < 3
TooFewURLs(us) == Len(us) < 3

---------------------------------------------------------------------------
(* Arguments of Script *)

\* the k-th URL of the caller's list
OverrideURL(k) == URL("https://example.org/override/", k)

\* c.KernelUrls: nil, or the first n of the caller's URLs
Configs ==
    { [KernelUrlsNil |-> TRUE, KernelUrls |-> <<>>,
       ModuleFilePath |-> m, ProbeFilePath |-> p] :
         m \in {"", "/out/module.ko"}, p \in {"", "/out/probe.o"} }
    \cup
    { [KernelUrlsNil |-> FALSE, KernelUrls |-> [k \in 1..n |-> OverrideURL(k)],
       ModuleFilePath |-> m, ProbeFilePath |-> p] :
         n \in 0..MaxOverride,
         m \in {"", "/out/module.ko"}, p \in {"", "/out/probe.o"} }

---------------------------------------------------------------------------
(* The call of Script *)

Init ==
    /\ c \in Configs
    /\ kr \in KernelReleases
    /\ debianTemplate \in Templates
    /\ pc = "parse"
    /\ fetched = <<>>
    /\ resp = NoResp
    /\ kbuildURL = NoURL
    /\ hres = [m \in Mirrors |-> NoResult]
    /\ i = 1
    /\ kurls = <<>>
    /\ reach = {}
    /\ urls = <<>>
    /\ script = <<>>
    /\ err = NoErr

\* return "", e
Fail(e) ==
    /\ pc' = "done"
    /\ script' = <<>>
    /\ err' = e

\* t.Parse(debTemplateStr), then the choice between resolution and the
\* caller's URLs.  fmt.Sprintf(debianTemplate, arch) writes the architecture
\* into the text of the template and leaves its sections as they are.
ParseTemplate ==
    /\ pc = "parse"
    /\ IF ~ParseOk(debianTemplate)
       THEN Fail(ErrParse)
       ELSE /\ pc' = IF c.KernelUrlsNil THEN "kbuild" ELSE "resolving"
            /\ UNCHANGED <<script, err>>
    /\ UNCHANGED <<c, kr, debianTemplate, fetched, resp, kbuildURL, hres, i,
                   kurls, reach, urls>>

\* fetchDebianKernelURLs, first half: debianKbuildURLFromRelease
FetchKbuild ==
    /\ pc = "kbuild"
    /\ \E got \in KbuildResponses :
         LET k == debianKbuildURLFromRelease(kr, got)
         IN  /\ fetched' = Append(fetched, KbuildBaseURL(kr))
             /\ resp' = got
             /\ kbuildURL' = k.url
             /\ IF k.err # NoErr
                THEN Fail(k.err)
                ELSE /\ pc' = "headers"
                     /\ UNCHANGED <<script, err>>
    /\ UNCHANGED <<c, kr, debianTemplate, hres, i, kurls, reach, urls>>

\* fetchDebianKernelURLs, second half: the call of
\* fetchDebianHeadersURLFromRelease for mirror i in the loop of
\* debianHeadersURLFromRelease
FetchHeaders ==
    /\ pc = "headers"
    /\ \E got \in HeaderResponses :
         /\ fetched' = Append(fetched, baseURLS[i])
         /\ resp' = got
         /\ hres' = [hres EXCEPT
                       ![i] = fetchDebianHeadersURLFromRelease(baseURLS[i],
                                                               kr, got)]
    /\ pc' = "matched"
    /\ UNCHANGED <<c, kr, debianTemplate, kbuildURL, i, kurls, reach, urls,
                   script, err>>

\* the rest of the loop body: return the URLs of mirror i (and append the
\* kbuild URL to them), go on to the next mirror, or give up after the last
LoopControl ==
    /\ pc = "matched"
    /\ LET step == HeadersLoop(hres[i], i)
       IN  IF ~step.ret
           THEN /\ i' = i + 1
                /\ pc' = "headers"
                /\ resp' = NoResp
                /\ UNCHANGED <<kurls, script, err>>
           ELSE IF step.err # NoErr
           THEN /\ Fail(step.err)
                /\ UNCHANGED <<i, resp, kurls>>
           ELSE /\ kurls' = AppendKbuild(step.urls, kbuildURL)
                /\ pc' = "resolved"
                /\ UNCHANGED <<i, resp, script, err>>
    /\ UNCHANGED <<c, kr, debianTemplate, fetched, kbuildURL, hres, reach,
                   urls>>

\* fetchDebianKernelURLs returns its URLs to Script: the locals of the
\* resolution are gone
ReturnKernelURLs ==
    /\ pc = "resolved"
    /\ pc' = "resolving"
    /\ resp' = NoResp
    /\ hres' = [m \in Mirrors |-> NoResult]
    /\ i' = 1
    /\ UNCHANGED <<c, kr, debianTemplate, fetched, kbuildURL, kurls, reach,
                   urls, script, err>>

\* getResolvingURLs on the resolved or the caller's URLs
Resolve ==
    /\ pc = "resolving"
    /\ LET input == IF c.KernelUrlsNil THEN kurls ELSE c.KernelUrls
       IN  \E reachable \in SUBSET Range(input) :
             LET g == getResolvingURLs(input, reachable)
             IN  /\ reach' = reachable
                 /\ urls' = g.urls
                 /\ IF g.err # NoErr
                    THEN Fail(g.err)
                    ELSE /\ pc' = "gate"
                         /\ UNCHANGED <<script, err>>
    /\ UNCHANGED <<c, kr, debianTemplate, fetched, resp, kbuildURL, hres, i,
                   kurls>>

\* the three-URL gate, debianTemplateData and parsed.Execute
Render ==
    /\ pc = "gate"
    /\ IF TooFewURLs(urls)
       THEN Fail(ErrInsufficient)
       ELSE LET r == ScriptReturn(Execute(debianTemplate,
                                          debianTemplateData(c, kr, urls)))
            IN  /\ pc' = "done"
                /\ script' = r.script
                /\ err' = r.err
    /\ UNCHANGED <<c, kr, debianTemplate, fetched, resp, kbuildURL, hres, i,
                   kurls, reach, urls>>

Next ==
    \/ ParseTemplate
    \/ FetchKbuild
    \/ FetchHeaders
    \/ LoopControl
    \/ ReturnKernelURLs
    \/ Resolve
    \/ Render

Spec == Init /\ [][Next]_vars

---------------------------------------------------------------------------
(* Properties *)

KbuildBases == {KbuildBaseDefault, KbuildBaseLegacy}

\* mirror m was asked and its index matched both roles
Matched(m) == hres[m].err = NoErr

\* mirror m was asked and did not give both URLs
Missed(m) == hres[m].err \notin {NoErr, NoResult.err}

\* resp is the index body that hres[i] was computed from
BodyInHand == resp.status = "ok" /\ hres[i].err # NoResult.err

HasOld(group) == \E o \in resp.body : rmatch(Name(kr, o), kr, group)

HasNew(group) == \E o \in resp.body : rmatchNew(Name(kr, o), kr, group)

Sections == { script[k].section : k \in 1..Len(script) }

\* C1: the headers mirrors are asked in the order of the list, each after
\* the kbuild index; once a mirror has matched no later mirror is asked; and
\* the URLs returned are those of the first mirror that matched, all
\* mirrors before it having failed.
C1_MirrorFallbackInOrder ==
    /\ \A k \in 2..Len(fetched) : fetched[k] = baseURLS[k - 1]
    /\ \A m \in Mirrors : Matched(m) => Len(fetched) = m + 1
    /\ pc = "resolved" =>
         \E m \in Mirrors :
            /\ Matched(m)
            /\ \A k \in 1..(m - 1) : Missed(k)
            /\ SubSeq(kurls, 1, 2) = hres[m].urls
            /\ kurls[1].base = baseURLS[m]

\* C1 witness: only the second mirror matched; the first was asked before
\* it and the third was never asked
C1_Witness ==
    /\ pc = "resolved"
    /\ Missed(1) /\ Matched(2)
    /\ Tail(fetched) = <<baseURLS[1], baseURLS[2]>>
    /\ kurls[1].base = baseURLS[2]

\* C2: Script returns no script and no nil error with fewer than three
\* URLs, and a caller's list of two URLs that both resolve ends with the
\* error of the three-URL gate.
C2_CardinalityGate ==
    pc = "done" =>
      /\ (err = NoErr \/ script # <<>>) => Len(urls) >= 3
      /\ ( /\ ~c.KernelUrlsNil
           /\ Len(c.KernelUrls) = 2
           /\ reach = Range(c.KernelUrls) )
         => (err = ErrInsufficient /\ script = <<>>)

\* C2 witness: the caller gave two URLs, both resolve, Script failed at the
\* gate
C2_Witness ==
    /\ pc = "done"
    /\ ~c.KernelUrlsNil /\ Len(c.KernelUrls) = 2
    /\ reach = Range(c.KernelUrls)
    /\ Len(urls) = 2
    /\ err = ErrInsufficient

\* C3: for the headers and for the common headers, an index resolves the
\* role iff it lists a match of the older or of the newer pattern; the URL
\* is a match of the older pattern whenever there is one and of the newer
\* pattern only otherwise; a body with neither for the headers gives
\* "kernel headers not found", and when no mirror resolves both roles the
\* resolution ends with "kernel headers not found".
C3_NamingSchemeFallback ==
    /\ BodyInHand =>
         LET h == matchExtraGroup(kr)
             co == matchExtraGroupCommon
             r == hres[i]
         IN  /\ Matched(i) <=> ( /\ HasOld(h) \/ HasNew(h)
                                 /\ HasOld(co) \/ HasNew(co) )
             /\ ~(HasOld(h) \/ HasNew(h)) => r.err = ErrHeadersNotFound
             /\ Matched(i) =>
                  /\ Len(r.urls) = 2
                  /\ IF HasOld(h)
                     THEN rmatch(Name(kr, r.urls[1].file), kr, h)
                     ELSE rmatchNew(Name(kr, r.urls[1].file), kr, h)
                  /\ IF HasOld(co)
                     THEN rmatch(Name(kr, r.urls[2].file), kr, co)
                     ELSE rmatchNew(Name(kr, r.urls[2].file), kr, co)
    /\ (pc = "done" /\ \A m \in Mirrors : Missed(m))
         => (err = ErrHeadersNotFound /\ script = <<>>)

\* C3 witness: an index with only a newer-scheme headers entry and only an
\* older-scheme common entry resolved
C3_Witness ==
    /\ pc = "resolved"
    /\ BodyInHand
    /\ ~HasOld(matchExtraGroup(kr)) /\ HasNew(matchExtraGroup(kr))
    /\ HasOld(matchExtraGroupCommon) /\ ~HasNew(matchExtraGroupCommon)
    /\ Matched(i)

\* C4 as claimed: Script never returns a transport failure of an index
\* request
C4_NoTransportErrorReturned ==
    pc = "done" => err \notin TransportErrors

\* C4 as amended: a transport failure of a headers mirror is never the error
\* returned (the run goes on with the next mirror, and ends with "kernel
\* headers not found" when it was the last); Script returns a transport
\* failure only when the one request of the kbuild index failed.
C4_HeadersTransportAbsorbed ==
    /\ (pc = "done" /\ \E m \in Mirrors : hres[m].err \in TransportErrors)
         => err = ErrHeadersNotFound
    /\ (pc = "done" /\ err \in TransportErrors)
         => /\ fetched = <<KbuildBaseURL(kr)>>
            /\ resp.status \in {"get-error", "read-error"}

\* C4 witness: the first mirror failed in transport and the second one gave
\* the URLs
C4_Witness ==
    /\ pc = "resolved"
    /\ hres[1].err \in TransportErrors
    /\ Matched(2)

\* C5 as claimed, for the primary headers role: the headers URL is on the
\* first mirror whose index matched the headers pattern, whether or not the
\* common headers matched there
C5_RolesIndependent ==
    pc = "resolved" =>
      \A m \in Mirrors :
         ( /\ hres[m].err \in {NoErr, ErrCommonNotFound}
           /\ \A k \in 1..(m - 1) : hres[k].err = ErrHeadersNotFound
                                    \/ hres[k].err \in TransportErrors )
         => kurls[1].base = baseURLS[m]

\* C5 as amended: the headers and the common headers are resolved together,
\* by the first mirror whose index matches both (a mirror that matches the
\* headers alone is passed over); the kbuild package is resolved on its own
\* index.
C5_HeadersResolvedJointly ==
    pc = "resolved" =>
      /\ Len(kurls) = 3
      /\ \E m \in Mirrors :
            /\ Matched(m)
            /\ \A k \in Mirrors : Matched(k) => k = m
            /\ kurls[1].base = baseURLS[m] /\ kurls[2].base = baseURLS[m]
            /\ Name(kr, kurls[1].file).group = matchExtraGroup(kr)
            /\ Name(kr, kurls[2].file).group = matchExtraGroupCommon
      /\ kurls[3] = kbuildURL
      /\ kurls[3].base \in KbuildBases

\* C5 witness: the first mirror matched the headers but not the common
\* headers, the second matched both
C5_Witness ==
    /\ pc = "resolved"
    /\ hres[1].err = ErrCommonNotFound
    /\ Matched(2)
    /\ kurls[1].base = baseURLS[2]

\* C6: Script returns the empty script with every error, a script only
\* with a nil error and at least three URLs, and nothing before it is done.
C6_NoPartialScript ==
    /\ pc # "done" => (script = <<>> /\ err = NoErr)
    /\ err # NoErr => script = <<>>
    /\ script # <<>> => (pc = "done" /\ err = NoErr /\ Len(urls) >= 3)

\* C6 witness: execution of the template failed after it had written its
\* first section, and Script returned the empty script
C6_Witness ==
    /\ pc = "done"
    /\ err = ErrExec
    /\ script = <<>>
    /\ debianTemplate = "opensuse.sh"

\* C7: a rendered script has the module section iff the module path is set,
\* the probe section iff the probe path is set, and always the preamble,
\* one fetch per URL and the staging section.
C7_ConditionalRendering ==
    (pc = "done" /\ err = NoErr) =>
      /\ "module-build" \in Sections <=> c.ModuleFilePath # ""
      /\ "probe-build" \in Sections <=> c.ProbeFilePath # ""
      /\ {"preamble", "fetch", "stage"} \subseteq Sections
      /\ \A u \in Range(urls) :
            \E k \in 1..Len(script) : script[k] = Line("fetch", u)

\* C7 witness: a script rendered with the module path set and the probe
\* path unset
C7_Witness ==
    /\ pc = "done" /\ err = NoErr
    /\ c.ModuleFilePath # "" /\ c.ProbeFilePath = ""
    /\ "module-build" \in Sections
    /\ "probe-build" \notin Sections

\* C8 as claimed: when resolution fails because a role is not found, the
\* error Script returns names that role
C8_ErrorNamesRole ==
    pc = "done" =>
      /\ (\A m \in Mirrors : hres[m].err = ErrHeadersNotFound)
           => err = ErrHeadersNotFound
      /\ (\A m \in Mirrors : hres[m].err = ErrCommonNotFound)
           => err = ErrCommonNotFound
      /\ (fetched = <<KbuildBaseURL(kr)>> /\ resp.status = "ok")
           => err = ErrKbuildNotFound

\* C9: the kbuild index requested, and the base of the kbuild URL, is the
\* linux-tools one iff the major version is 3, and one kbuild index is
\* requested per call.
C9_LegacyKbuildBase ==
    Len(fetched) >= 1 =>
      /\ fetched[1] = IF kr.Version = 3 THEN KbuildBaseLegacy
                      ELSE KbuildBaseDefault
      /\ kbuildURL # NoURL => kbuildURL.base = fetched[1]
      /\ Cardinality({k \in 1..Len(fetched) : fetched[k] \in KbuildBases}) = 1

\* C9 witness: a 3.x release got its kbuild URL from the linux-tools index
C9_Witness ==
    /\ kr.Version = 3
    /\ fetched = <<KbuildBaseLegacy>>
    /\ kbuildURL.base = KbuildBaseLegacy

\* C10: fetchDebianKernelURLs returns the headers URL, the common headers
\* URL (same mirror) and the kbuild URL, in that order; the kbuild index is
\* requested first and nothing else when it fails; no index is requested
\* twice, so there are at most four requests.
C10_ThreeURLsInOrder ==
    /\ pc = "resolved" =>
         /\ Len(kurls) = 3
         /\ Name(kr, kurls[1].file).pkg = "linux-headers"
         /\ Name(kr, kurls[1].file).group = matchExtraGroup(kr)
         /\ Name(kr, kurls[2].file).pkg = "linux-headers"
         /\ Name(kr, kurls[2].file).group = matchExtraGroupCommon
         /\ Name(kr, kurls[3].file).pkg = "linux-kbuild"
         /\ kurls[1].base = kurls[2].base
         /\ kurls[1].base \in Range(baseURLS)
         /\ kurls[3].base \in KbuildBases
    /\ Len(fetched) >= 1 => fetched[1] \in KbuildBases
    /\ (Len(fetched) >= 1 /\ kbuildURL = NoURL) => Len(fetched) = 1
    /\ \A j, k \in 1..Len(fetched) : fetched[j] = fetched[k] => j = k
    /\ Len(fetched) <= 4

\* C10 witness: the third mirror gave the headers after four requests
C10_Witness ==
    /\ pc = "resolved"
    /\ Len(fetched) = 4
    /\ Len(kurls) = 3
    /\ kurls[1].base = baseURLS[3]

===========================================================================
